---- MODULE Spec2Model ----
(***************************************************************************)
(* Model of src/python/data_splitter.py: the Record and Batch classes and  *)
(* the script body that loads a CSV file, merges the records that share an *)
(* address key, groups the result by (GROUP, COUNTRY) and dumps JSON files.*)
(*                                                                         *)
(* A Python str is a sequence of one-character strings, so that            *)
(* concatenation, join and the lexicographic order of sorted() are         *)
(* computed character by character.  A dict is a sequence of               *)
(* [key, value] entries in insertion order with pairwise distinct keys.    *)
(***************************************************************************)
EXTENDS Integers, Sequences, FiniteSets, TLC

VARIABLES
    pc,         \* position of the script body
    argv,       \* sys.argv[1:]
    csv_file,   \* the input file: readable flag, header, rows
    csv_path,   \* the global csv_path: "unbound" until line 128 assigns it
    batch,      \* the global batch (rebound by the loop of line 179)
    groups,     \* the global groups
    files,      \* content of OUTPUT_LOCATION: file name -> dumped content
    log,        \* what the logging calls of the script emitted, in order
    exc,        \* the exception the try block raised, "None" if none
    removed,    \* SpecBatch: identifiers removed by successful Batch.merge calls
    last        \* SpecBatch: the last call on the Batch and how it ended

vars == <<pc, argv, csv_file, csv_path, batch, groups, files, log, exc, removed, last>>

---------------------------------------------------------------------------
(* Bounds of the model *)

MaxRows == 3        \* rows of the input file
MaxBatch == 3       \* records added to the Batch under SpecBatch
MaxMergeIds == 2    \* length of the merge_ids tuple under SpecBatch

---------------------------------------------------------------------------
(* Python strings *)

\* ord() of the characters the model uses
Ord(c) ==
    CASE c = "." -> 46
      [] c = "0" -> 48
      [] c = "1" -> 49
      [] c = "2" -> 50
      [] c = "_" -> 95
      [] c = "a" -> 97
      [] c = "b" -> 98
      [] c = "c" -> 99
      [] c = "f" -> 102
      [] c = "i" -> 105
      [] c = "j" -> 106
      [] c = "l" -> 108
      [] c = "n" -> 110
      [] c = "o" -> 111
      [] c = "s" -> 115

\* s < t for two str: the first differing character decides, a proper
\* prefix is smaller
StrLess(s, t) ==
    \E i \in 1..(Len(t)) :
        /\ \A j \in 1..(i - 1) : j <= Len(s) /\ s[j] = t[j]
        /\ Len(s) >= i - 1
        /\ \/ Len(s) = i - 1
           \/ Ord(s[i]) < Ord(t[i])

\* a mis-sort: shorter strings first, then character order (the order of the
\* numbers the identifiers spell)
RECURSIVE SortedByLength(_)
SortedByLength(S) ==
    IF S = {} THEN <<>>
    ELSE LET m == CHOOSE x \in S : \A y \in S :
                      \/ x = y
                      \/ Len(x) < Len(y)
                      \/ (Len(x) = Len(y) /\ StrLess(x, y))
         IN  <<m>> \o SortedByLength(S \ {m})

\* sorted(S) for a set of str
RECURSIVE Sorted(_)
Sorted(S) ==
    IF S = {} THEN <<>>
    ELSE LET m == CHOOSE x \in S : \A y \in S : x = y \/ StrLess(x, y)
         IN  <<m>> \o Sorted(S \ {m})

\* sep.join(parts)
RECURSIVE Join(_, _)
Join(sep, parts) ==
    IF parts = <<>> THEN <<>>
    ELSE IF Len(parts) = 1 THEN parts[1]
    ELSE parts[1] \o sep \o Join(sep, Tail(parts))

---------------------------------------------------------------------------
(* Module constants *)

ADDRESS_FIELDS == <<"STREET", "CITY", "ZIP", "COUNTRY">>
GROUP_BY_FIELDS == <<"GROUP", "COUNTRY">>
JSON_EXT == <<".", "j", "s", "o", "n">>
FINAL_JSON_NAME == <<"f", "i", "n", "a", "l">> \o JSON_EXT

---------------------------------------------------------------------------
(* dict *)

Keys(d) == {d[i].key : i \in 1..Len(d)}

\* d[k], for k in d
Get(d, k) == d[CHOOSE i \in 1..Len(d) : d[i].key = k].value

\* d[k] = v: an existing key keeps its position
Set(d, k, v) ==
    IF k \in Keys(d)
    THEN [i \in 1..Len(d) |-> IF d[i].key = k THEN [key |-> k, value |-> v] ELSE d[i]]
    ELSE Append(d, [key |-> k, value |-> v])

\* a pop that leaves the entry in the dict
PopKeeps(d, k) == d

\* the dict after d.pop(k), for k in d
Pop(d, k) == SelectSeq(d, LAMBDA e : e.key /= k)

\* dict equality: the same keys with the same values, whatever the order
AsMap(d) == {<<d[i].key, d[i].value>> : i \in 1..Len(d)}

---------------------------------------------------------------------------
(* class Record *)

\* a constructor that rejects an empty sequence ID
RecordValidated(sequence_id, kwargs) ==
    IF sequence_id = <<>>
    THEN [exc |-> "ValueError", value |-> <<>>]
    ELSE [exc |-> "None",
          value |-> [f \in (DOMAIN kwargs) \cup {"SEQUENCE_ID", "MERGED_SEQUENCE_IDS"} |->
                        IF f = "SEQUENCE_ID" THEN sequence_id
                        ELSE IF f = "MERGED_SEQUENCE_IDS" THEN <<>>
                        ELSE kwargs[f]]]

\* Record(sequence_id, **kwargs): the outcome of the constructor
Record(sequence_id, kwargs) ==
    [exc |-> "None",
     value |-> [f \in (DOMAIN kwargs) \cup {"SEQUENCE_ID", "MERGED_SEQUENCE_IDS"} |->
                   IF f = "SEQUENCE_ID" THEN sequence_id
                   ELSE IF f = "MERGED_SEQUENCE_IDS" THEN <<>>
                   ELSE kwargs[f]]]

\* self.merge(other_record): self afterwards
RecordMerge(self, other_record) ==
    [self EXCEPT !["MERGED_SEQUENCE_IDS"] = Append(@, other_record["SEQUENCE_ID"])]

---------------------------------------------------------------------------
(* class Batch *)

\* self.add(record): self afterwards
BatchAdd(self, record) == Set(self, record["SEQUENCE_ID"], record)

\* a merge that skips the identifiers it does not find
RECURSIVE BatchMergeLenient(_, _, _)
BatchMergeLenient(self, main_record_id, merge_ids) ==
    IF merge_ids = <<>> THEN [exc |-> "None", batch |-> self]
    ELSE IF main_record_id \notin Keys(self) \/ Head(merge_ids) \notin Keys(self)
    THEN BatchMergeLenient(self, main_record_id, Tail(merge_ids))
    ELSE LET other == Get(self, Head(merge_ids))
             popped == Pop(self, Head(merge_ids))
             merged == IF main_record_id \in Keys(popped)
                       THEN Set(popped, main_record_id,
                                RecordMerge(Get(popped, main_record_id), other))
                       ELSE popped
         IN  BatchMergeLenient(merged, main_record_id, Tail(merge_ids))

\* self.merge(main_record_id, *merge_ids): the exception raised, if any, and
\* self afterwards.  In each iteration self[main_record_id] is looked up
\* first, then merge_id is popped, then the identifier is appended to the
\* main record (which is no longer in self when merge_id = main_record_id).
RECURSIVE BatchMerge(_, _, _)
BatchMerge(self, main_record_id, merge_ids) ==
    IF merge_ids = <<>> THEN [exc |-> "None", batch |-> self]
    ELSE IF main_record_id \notin Keys(self) THEN [exc |-> "KeyError", batch |-> self]
    ELSE IF Head(merge_ids) \notin Keys(self) THEN [exc |-> "KeyError", batch |-> self]
    ELSE LET other == Get(self, Head(merge_ids))
             popped == Pop(self, Head(merge_ids))
             merged == IF main_record_id \in Keys(popped)
                       THEN Set(popped, main_record_id,
                                RecordMerge(Get(popped, main_record_id), other))
                       ELSE popped
         IN  BatchMerge(merged, main_record_id, Tail(merge_ids))

---------------------------------------------------------------------------
(* The script body, lines 124-190 *)

NoExc(b) == [exc |-> "None", batch |-> b]

HasFields(record, fields) == \A i \in 1..Len(fields) : fields[i] \in DOMAIN record

\* lines 141-142: one Record per row, added to the batch; row['SEQUENCE_ID']
\* raises KeyError when the file has no such column
RECURSIVE LoadRows(_, _)
LoadRows(b, rows) ==
    IF rows = <<>> THEN NoExc(b)
    ELSE LET row == Head(rows) IN
         IF "SEQUENCE_ID" \notin DOMAIN row THEN [exc |-> "KeyError", batch |-> b]
         ELSE LET made == Record(row["SEQUENCE_ID"], row) IN
              IF made.exc /= "None" THEN [exc |-> made.exc, batch |-> b]
              ELSE LoadRows(BatchAdd(b, made.value), Tail(rows))

\* line 150: the address fields of the record as one string
AddressKey(record) ==
    Join(<<>>, [i \in 1..Len(ADDRESS_FIELDS) |-> record[ADDRESS_FIELDS[i]]])

\* lines 146-151: addresses, a dict from address key to the set of the
\* sequence IDs that have it, in the order of first appearance
RECURSIVE Addresses(_, _)
Addresses(b, addresses) ==
    IF b = <<>> THEN [exc |-> "None", addresses |-> addresses]
    ELSE LET record == Head(b).value IN
         IF ~HasFields(record, ADDRESS_FIELDS)
         THEN [exc |-> "KeyError", addresses |-> addresses]
         ELSE LET address == AddressKey(record)
                  old == IF address \in Keys(addresses) THEN Get(addresses, address) ELSE {}
              IN  Addresses(Tail(b), Set(addresses, address, old \cup {Head(b).key}))

\* a merge into the first record of the batch instead of the lowest ID
MergeFirstInserted(b, sequence_ids) ==
    IF Cardinality(sequence_ids) > 1
    THEN LET inOrder == SelectSeq([i \in 1..Len(b) |-> b[i].key],
                                  LAMBDA k : k \in sequence_ids)
         IN  BatchMerge(b, inOrder[1], Tail(inOrder))
    ELSE NoExc(b)

\* lines 156-163: the IDs of one address are merged into the lowest of them
MergeLikeAddresses(b, sequence_ids) ==
    IF Cardinality(sequence_ids) > 1
    THEN LET sorted_sequence_ids == Sorted(sequence_ids)
             main_record_id == sorted_sequence_ids[1]
             merge_record_ids == Tail(sorted_sequence_ids)
         IN  BatchMerge(b, main_record_id, merge_record_ids)
    ELSE NoExc(b)

\* lines 155-163: the loop over addresses.items()
RECURSIVE MergeAddresses(_, _)
MergeAddresses(b, addresses) ==
    IF addresses = <<>> THEN NoExc(b)
    ELSE LET done == MergeLikeAddresses(b, Head(addresses).value) IN
         IF done.exc /= "None" THEN done
         ELSE MergeAddresses(done.batch, Tail(addresses))

\* the number of "Merging IDs" messages of lines 161-162
Mergings(addresses) ==
    Cardinality({i \in 1..Len(addresses) : Cardinality(addresses[i].value) > 1})

\* a group key made of the GROUP value alone
GroupKeyGroupOnly(record) == <<record["GROUP"]>>

\* line 174: the group key of a record
GroupKey(record) == [i \in 1..Len(GROUP_BY_FIELDS) |-> record[GROUP_BY_FIELDS[i]]]

\* lines 172-175: groups, a dict from group key to the Batch of its records
RECURSIVE GroupBy(_, _)
GroupBy(b, g) ==
    IF b = <<>> THEN [exc |-> "None", groups |-> g]
    ELSE LET record == Head(b).value IN
         IF ~HasFields(record, GROUP_BY_FIELDS) THEN [exc |-> "KeyError", groups |-> g]
         ELSE LET key == GroupKey(record)
                  old == IF key \in Keys(g) THEN Get(g, key) ELSE <<>>
              IN  GroupBy(Tail(b), Set(g, key, BatchAdd(old, record)))

\* json.dump(d, f, indent=4, sort_keys=True): the entries in the order of
\* their keys
JsonDump(d) ==
    LET ks == Sorted(Keys(d))
    IN  [i \in 1..Len(ks) |-> [key |-> ks[i], value |-> Get(d, ks[i])]]

\* line 181: the file name of a group
GroupJsonName(group) == Join(<<"_">>, group) \o JSON_EXT

\* a file of OUTPUT_LOCATION is written (created or truncated)
WriteFile(fs, name, content) ==
    [n \in (DOMAIN fs) \cup {name} |-> IF n = name THEN content ELSE fs[n]]

\* lines 179-185, the first n groups written in order
RECURSIVE DumpGroups(_, _, _)
DumpGroups(fs, g, n) ==
    IF n = 0 THEN fs
    ELSE WriteFile(DumpGroups(fs, g, n - 1), GroupJsonName(g[n].key), JsonDump(g[n].value))

---------------------------------------------------------------------------
(* Inputs *)

AllFields == {"SEQUENCE_ID", "STREET", "CITY", "ZIP", "COUNTRY", "GROUP"}

\* the header rows of the input files: complete, or with one column missing
Headers ==
    {AllFields, AllFields \ {"GROUP"}, AllFields \ {"ZIP"}, AllFields \ {"SEQUENCE_ID"}}

\* "1" < "10" < "2" as str, 1 < 2 < 10 as numbers
SequenceIds == {<<"1">>, <<"1", "0">>, <<"2">>}

\* ("a", "b") and ("ab", "") are two addresses with one concatenation;
\* ("a_b", "c") and ("a", "b_c") are two groups with one joined name
FieldValues ==
    [STREET : {<<"a">>, <<"a", "b">>},
     CITY : {<<>>, <<"b">>},
     ZIP : {<<"0">>},
     COUNTRY : {<<"c">>, <<"b", "_", "c">>},
     GROUP : {<<"a">>, <<"a", "_", "b">>}]

\* a row as csv.DictReader yields it: a dict over the header
Row(header, sequence_id, values) ==
    [f \in header |-> IF f = "SEQUENCE_ID" THEN sequence_id ELSE values[f]]

\* the files with n rows under the header: pairwise distinct sequence IDs
CsvFiles(header, n) ==
    {[readable |-> TRUE, header |-> header,
      rows |-> [i \in 1..n |-> Row(header, ids[i], values[i])]] :
        ids \in {s \in [1..n -> SequenceIds] : \A i, j \in 1..n : s[i] = s[j] => i = j},
        values \in [1..n -> FieldValues]}

NoFile == [readable |-> FALSE, header |-> {}, rows |-> <<>>]

NoCall ==
    [op |-> "none", main |-> <<>>, ids |-> <<>>, kwargs |-> <<>>, pre |-> {}, exc |-> "None"]

---------------------------------------------------------------------------
(* Spec: one run of the script *)

Init ==
    /\ pc = "start"
    /\ \/ argv = <<>> /\ csv_file = NoFile
       \/ /\ argv = <<"input.csv">>
          /\ \/ csv_file = NoFile
             \/ \E n \in 0..MaxRows : csv_file \in CsvFiles(AllFields, n)
             \/ \E header \in Headers \ {AllFields} : csv_file \in CsvFiles(header, 1)
    /\ csv_path = "unbound"
    /\ batch = <<>>
    /\ groups = <<>>
    /\ files = <<>>
    /\ log = <<>>
    /\ exc = "None"
    /\ removed = {}
    /\ last = NoCall

\* lines 125-134: the start message, csv_path = sys.argv[1], the empty batch,
\* the output directory (os.makedirs may fail)
Begin ==
    /\ pc = "start"
    /\ IF argv = <<>>
       THEN /\ exc' = "IndexError"
            /\ pc' = "except"
            /\ log' = Append(log, "Starting")
            /\ UNCHANGED <<csv_path, batch>>
       ELSE /\ csv_path' = argv[1]
            /\ log' = log \o <<"Starting", "Processing file">>
            /\ batch' = <<>>
            /\ \/ pc' = "read" /\ exc' = "None"
               \/ pc' = "except" /\ exc' = "OSError"
    /\ UNCHANGED <<argv, csv_file, groups, files, removed, last>>

\* lines 137-143: the file is opened and every row becomes a Record of the batch
ReadCsv ==
    /\ pc = "read"
    /\ IF ~csv_file.readable
       THEN /\ exc' = "OSError"
            /\ pc' = "except"
            /\ UNCHANGED <<batch, log>>
       ELSE LET loaded == LoadRows(batch, csv_file.rows) IN
            /\ batch' = loaded.batch
            /\ exc' = loaded.exc
            /\ IF loaded.exc = "None"
               THEN pc' = "merge" /\ log' = Append(log, "Batch")
               ELSE pc' = "except" /\ UNCHANGED log
    /\ UNCHANGED <<argv, csv_file, csv_path, groups, files, removed, last>>

\* lines 146-163: records with the same address key are merged
MergeSameAddress ==
    /\ pc = "merge"
    /\ LET keyed == Addresses(batch, <<>>) IN
       IF keyed.exc /= "None"
       THEN /\ exc' = keyed.exc
            /\ pc' = "except"
            /\ UNCHANGED <<batch, log>>
       ELSE LET merged == MergeAddresses(batch, keyed.addresses) IN
            /\ batch' = merged.batch
            /\ exc' = merged.exc
            /\ log' = log \o [i \in 1..Mergings(keyed.addresses) |-> "Merging IDs"]
            /\ pc' = IF merged.exc = "None" THEN "dump_final" ELSE "except"
    /\ UNCHANGED <<argv, csv_file, csv_path, groups, files, removed, last>>

\* lines 166-169: the whole batch is dumped to final.json (open may fail)
DumpFinal ==
    /\ pc = "dump_final"
    /\ log' = Append(log, "Writing all records")
    /\ \/ /\ files' = WriteFile(files, FINAL_JSON_NAME, JsonDump(batch))
          /\ pc' = "group"
          /\ exc' = "None"
       \/ /\ pc' = "except"
          /\ exc' = "OSError"
          /\ UNCHANGED files
    /\ UNCHANGED <<argv, csv_file, csv_path, batch, groups, removed, last>>

\* lines 172-176: the batch is grouped by GROUP_BY_FIELDS
GroupRecords ==
    /\ pc = "group"
    /\ LET grouped == GroupBy(batch, <<>>) IN
       /\ groups' = grouped.groups
       /\ exc' = grouped.exc
       /\ IF grouped.exc = "None"
          THEN pc' = "dump_groups" /\ log' = Append(log, "Groups")
          ELSE pc' = "except" /\ UNCHANGED log
    /\ UNCHANGED <<argv, csv_file, csv_path, batch, files, removed, last>>

\* lines 179-185: each group is dumped to its own file; the loop rebinds the
\* global batch to the group at hand; the open of a file may fail, and the
\* groups before it are written
DumpGroupFiles ==
    /\ pc = "dump_groups"
    /\ \E n \in 0..Len(groups) :
          /\ files' = DumpGroups(files, groups, n)
          /\ IF n = Len(groups)
             THEN /\ pc' = "else"
                  /\ exc' = "None"
                  /\ log' = log \o [i \in 1..n |-> "Writing group"]
                  /\ batch' = IF n = 0 THEN batch ELSE groups[n].value
             ELSE /\ pc' = "except"
                  /\ exc' = "OSError"
                  /\ log' = log \o [i \in 1..(n + 1) |-> "Writing group"]
                  /\ batch' = groups[n + 1].value
    /\ UNCHANGED <<argv, csv_file, csv_path, groups, removed, last>>

\* lines 189-190: the else branch of the try statement
Ended ==
    /\ pc = "else"
    /\ log' = Append(log, "ended successfully")
    /\ pc' = "exit0"
    /\ UNCHANGED <<argv, csv_file, csv_path, batch, groups, files, exc, removed, last>>

\* lines 187-188: the handler formats csv_path into its message; the name is
\* unbound when sys.argv[1] raised, and the NameError leaves the handler
Except ==
    /\ pc = "except"
    /\ IF csv_path = "unbound"
       THEN /\ exc' = "NameError"
            /\ pc' = "uncaught"
            /\ UNCHANGED log
       ELSE /\ log' = Append(log, "Exception occurred")
            /\ pc' = "exit0"
            /\ UNCHANGED exc
    /\ UNCHANGED <<argv, csv_file, csv_path, batch, groups, files, removed, last>>

Next ==
    \/ Begin
    \/ ReadCsv
    \/ MergeSameAddress
    \/ DumpFinal
    \/ GroupRecords
    \/ DumpGroupFiles
    \/ Ended
    \/ Except

Spec == Init /\ [][Next]_vars

---------------------------------------------------------------------------
(* SpecBatch: a caller of the Batch class.  Records are created and added,  *)
(* then merged by identifier; an exception ends the calls.                  *)

\* the sequence IDs a caller passes: the empty string is one of them
CallerIds == SequenceIds \cup {<<>>}

\* the field mappings a caller passes: without SEQUENCE_ID, and with one
\* that differs from the sequence_id argument
CallerFields ==
    {[STREET |-> <<"a">>],
     [STREET |-> <<"a">>, SEQUENCE_ID |-> <<"2">>]}

\* the merge_ids tuples a caller passes
MergeIdTuples == UNION {[1..n -> CallerIds] : n \in 0..MaxMergeIds}

InitBatch ==
    /\ pc = "api"
    /\ argv = <<>>
    /\ csv_file = NoFile
    /\ csv_path = "unbound"
    /\ batch = <<>>
    /\ groups = <<>>
    /\ files = <<>>
    /\ log = <<>>
    /\ exc = "None"
    /\ removed = {}
    /\ last = NoCall

\* batch.add(Record(sequence_id, **fields)), before any record is merged away
AddRecord ==
    /\ pc = "api"
    /\ last.exc = "None"
    /\ removed = {}
    /\ Len(batch) < MaxBatch
    /\ \E sequence_id \in CallerIds, fields \in CallerFields :
          LET made == Record(sequence_id, fields) IN
          /\ batch' = IF made.exc = "None" THEN BatchAdd(batch, made.value) ELSE batch
          /\ last' = [op |-> "add", main |-> sequence_id, ids |-> <<>>,
                      kwargs |-> fields, pre |-> Keys(batch), exc |-> made.exc]
    /\ UNCHANGED <<pc, argv, csv_file, csv_path, groups, files, log, exc, removed>>

\* batch.merge(main_record_id, *merge_ids)
MergeRecords ==
    /\ pc = "api"
    /\ last.exc = "None"
    /\ \E main_record_id \in CallerIds, merge_ids \in MergeIdTuples :
          LET merged == BatchMerge(batch, main_record_id, merge_ids) IN
          /\ batch' = merged.batch
          /\ last' = [op |-> "merge", main |-> main_record_id, ids |-> merge_ids,
                      kwargs |-> <<>>, pre |-> Keys(batch), exc |-> merged.exc]
          /\ removed' = IF merged.exc = "None"
                        THEN removed \cup {merge_ids[i] : i \in 1..Len(merge_ids)}
                        ELSE removed
    /\ UNCHANGED <<pc, argv, csv_file, csv_path, groups, files, log, exc>>

NextBatch ==
    \/ AddRecord
    \/ MergeRecords

SpecBatch == InitBatch /\ [][NextBatch]_vars

---------------------------------------------------------------------------
(* Properties of a run of the script (Spec) *)

\* the positions at which the global batch is the deduplicated Batch
Deduplicated == pc \in {"dump_final", "group", "dump_groups"}

InputRows == {csv_file.rows[i] : i \in 1..Len(csv_file.rows)}

DistinctIds ==
    \A i, j \in 1..Len(csv_file.rows) :
        csv_file.rows[i]["SEQUENCE_ID"] = csv_file.rows[j]["SEQUENCE_ID"] => i = j

\* the sequence IDs of the input rows that have the address key of row r
SameAddress(r) ==
    {q["SEQUENCE_ID"] : q \in {x \in InputRows : AddressKey(x) = AddressKey(r)}}

MergedIds(record) == record["MERGED_SEQUENCE_IDS"]

Occurrences(seq, x) == Cardinality({i \in 1..Len(seq) : seq[i] = x})

\* C1: deduplication leaves, of the input records of one address key,
\* exactly one in the Batch, and its merged_sequence_ids holds the other
\* identifiers of that key, each once, and no other identifier.
C1_OnePerAddress ==
    (Deduplicated /\ DistinctIds) =>
        \A r \in InputRows :
            LET K == SameAddress(r)
                left == K \cap Keys(batch)
            IN  /\ Cardinality(left) = 1
                /\ \A k \in left :
                      LET m == MergedIds(Get(batch, k)) IN
                      /\ {m[i] : i \in 1..Len(m)} = K \ {k}
                      /\ \A x \in K \ {k} : Occurrences(m, x) = 1

\* three input records, two of them of one address, after deduplication
C1_Witness ==
    /\ pc = "dump_final"
    /\ Len(csv_file.rows) = 3
    /\ Len(batch) = 2
    /\ \E i \in 1..Len(batch) : Len(MergedIds(batch[i].value)) = 1

\* C2: of an address key with several sequence IDs the record with the
\* smallest ID in string order survives, with the field values of its own
\* input row, and its merged_sequence_ids lists the other IDs in ascending
\* string order.
C2_LowestIdSurvives ==
    Deduplicated =>
        \A r \in InputRows :
            LET K == SameAddress(r) IN
            (Cardinality(K) > 1 /\ \A k \in K \ {r["SEQUENCE_ID"]} : StrLess(r["SEQUENCE_ID"], k)) =>
                /\ r["SEQUENCE_ID"] \in Keys(batch)
                /\ LET survivor == Get(batch, r["SEQUENCE_ID"])
                       m == MergedIds(survivor)
                   IN  /\ \A f \in DOMAIN r : survivor[f] = r[f]
                       /\ {m[i] : i \in 1..Len(m)} = K \ {r["SEQUENCE_ID"]}
                       /\ \A i, j \in 1..Len(m) : i < j => StrLess(m[i], m[j])

\* the IDs "2", "10", "1", read in that order, share an address: "1" survives
\* with the merged list ["10", "2"]
C2_Witness ==
    /\ pc = "dump_final"
    /\ Len(csv_file.rows) = 3
    /\ csv_file.rows[1]["SEQUENCE_ID"] = <<"2">>
    /\ csv_file.rows[2]["SEQUENCE_ID"] = <<"1", "0">>
    /\ Len(batch) = 1
    /\ batch[1].key = <<"1">>
    /\ MergedIds(batch[1].value) = << <<"1", "0">>, <<"2">> >>

\* the key of the Batch entry that stands for the identifier id
Represents(id) ==
    {batch[i].key : i \in {j \in 1..Len(batch) :
        batch[j].key = id \/ Occurrences(MergedIds(batch[j].value), id) > 0}}

\* C3: two input records that differ in an address field are never merged
\* together: they are not represented by one surviving record.
C3_NoFalseMerge ==
    Deduplicated =>
        \A r1, r2 \in InputRows :
            (\E i \in 1..Len(ADDRESS_FIELDS) : r1[ADDRESS_FIELDS[i]] /= r2[ADDRESS_FIELDS[i]]) =>
                Represents(r1["SEQUENCE_ID"]) \cap Represents(r2["SEQUENCE_ID"]) = {}

\* C4: the group Batches partition the deduplicated Batch, each record under
\* the key made of its own GROUP and COUNTRY.
C4_GroupsPartition ==
    pc = "dump_groups" =>
        /\ UNION {AsMap(groups[i].value) : i \in 1..Len(groups)} = AsMap(batch)
        /\ \A k \in Keys(batch) :
              Cardinality({i \in 1..Len(groups) : k \in Keys(groups[i].value)}) = 1
        /\ \A i \in 1..Len(groups) : \A j \in 1..Len(groups[i].value) :
              LET record == groups[i].value[j].value IN
              groups[i].key = <<record["GROUP"], record["COUNTRY"]>>

\* three records left after deduplication, in more than one group, one of
\* the groups with more than one record
C4_Witness ==
    /\ pc = "dump_groups"
    /\ Len(batch) = 3
    /\ Len(groups) = 2

\* C5: whatever the try block raises, the handler logs and swallows it: no
\* run ends in an uncaught exception.
C5_NeverUncaught == pc /= "uncaught"

\* the name of the file of the group key
FileOf(key) == key[1] \o <<"_">> \o key[2] \o JSON_EXT

\* C8: a run that ends without error leaves final.json and one file per
\* (GROUP, COUNTRY) key, distinct keys in distinct files, each with the
\* records of its group and no others.
C8_OneFilePerGroup ==
    (pc = "exit0" /\ exc = "None") =>
        /\ DOMAIN files = {FINAL_JSON_NAME} \cup {FileOf(groups[i].key) : i \in 1..Len(groups)}
        /\ Cardinality(DOMAIN files) = 1 + Len(groups)
        /\ \A i \in 1..Len(groups) :
              files[FileOf(groups[i].key)] = JsonDump(groups[i].value)

\* the orderings of n rows
Orderings(n) == {p \in [1..n -> 1..n] : \A i, j \in 1..n : p[i] = p[j] => i = j}

\* C10: every ordering of the input rows gives the deduplicated Batch and
\* the groups of the run: the same keys, records and merged lists.
C10_OrderIndependent ==
    (pc = "dump_groups" /\ DistinctIds) =>
        \A p \in Orderings(Len(csv_file.rows)) :
            LET reordered == [i \in 1..Len(csv_file.rows) |-> csv_file.rows[p[i]]]
                loaded == LoadRows(<<>>, reordered)
                keyed == Addresses(loaded.batch, <<>>)
                merged == MergeAddresses(loaded.batch, keyed.addresses)
                grouped == GroupBy(merged.batch, <<>>)
            IN  /\ merged.exc = "None"
                /\ grouped.exc = "None"
                /\ AsMap(merged.batch) = AsMap(batch)
                /\ {<<grouped.groups[i].key, AsMap(grouped.groups[i].value)>> :
                        i \in 1..Len(grouped.groups)}
                     = {<<groups[i].key, AsMap(groups[i].value)>> : i \in 1..Len(groups)}

\* the highest ID is read first and the records of one address end in the
\* record of the lowest ID
C10_Witness ==
    /\ pc = "dump_groups"
    /\ Len(csv_file.rows) = 3
    /\ csv_file.rows[1]["SEQUENCE_ID"] = <<"2">>
    /\ Len(batch) = 2
    /\ Len(MergedIds(Get(batch, <<"1">>))) = 1

---------------------------------------------------------------------------
(* Properties of the Batch class (SpecBatch) *)

AbsentId ==
    \/ last.main \notin last.pre
    \/ \E i \in 1..Len(last.ids) : last.ids[i] \notin last.pre

\* C6: Batch.merge raises KeyError in every call whose main_id or one of
\* whose merge_ids is not in the Batch, whatever the length of merge_ids.
C6_AbsentIdFails ==
    (last.op = "merge" /\ AbsentId) => last.exc = "KeyError"

\* C6 amended: Batch.merge raises KeyError in every call with at least one
\* merge id whose main_id or one of whose merge_ids is not in the Batch.
C6_AbsentIdFailsNonEmpty ==
    (last.op = "merge" /\ Len(last.ids) > 0 /\ AbsentId) => last.exc = "KeyError"

\* a merge whose first merge id and main_id are in the Batch and whose
\* second merge id is not
C6_Witness ==
    /\ last.op = "merge"
    /\ Len(last.ids) = 2
    /\ last.main \in last.pre
    /\ last.ids[1] \in last.pre
    /\ last.ids[1] /= last.main
    /\ last.ids[2] \notin last.pre
    /\ last.exc = "KeyError"

\* C7: the construction of a Record fails when the sequence_id is empty or
\* is not in the field mapping, and no Batch holds a Record with an empty
\* sequence ID.
C7_CreationValidated ==
    /\ (last.op = "add" /\ (last.main = <<>> \/ "SEQUENCE_ID" \notin DOMAIN last.kwargs))
          => last.exc /= "None"
    /\ <<>> \notin Keys(batch)

\* C7 amended: the construction of a Record never fails; the Record has the
\* sequence_id argument as its SEQUENCE_ID, empty or not and whatever the
\* field mapping holds, an empty merged list and the other fields of the
\* mapping, and it is in the Batch under that sequence_id.
C7_CreationUnvalidated ==
    last.op = "add" =>
        /\ last.exc = "None"
        /\ last.main \in Keys(batch)
        /\ LET record == Get(batch, last.main) IN
           /\ record["SEQUENCE_ID"] = last.main
           /\ MergedIds(record) = <<>>
           /\ \A f \in (DOMAIN last.kwargs) \ {"SEQUENCE_ID"} : record[f] = last.kwargs[f]

\* a Record with an empty sequence_id, made from a mapping without
\* SEQUENCE_ID, is in the Batch
C7_Witness ==
    /\ last.op = "add"
    /\ last.main = <<>>
    /\ "SEQUENCE_ID" \notin DOMAIN last.kwargs
    /\ <<>> \in Keys(batch)

\* C9: after successful merges, every identifier a merge removed from the
\* Batch is in the merged_sequence_ids of exactly one Record of the Batch,
\* exactly once.
C9_IdentifiersConserved ==
    last.exc = "None" =>
        \A id \in removed :
            /\ Cardinality({i \in 1..Len(batch) :
                   Occurrences(MergedIds(batch[i].value), id) > 0}) = 1
            /\ \A i \in 1..Len(batch) : Occurrences(MergedIds(batch[i].value), id) <= 1

====
